---------------------------- MODULE Spec2Model ----------------------------
(***************************************************************************)
(* Model of the spotimap backend (src/api/api.py): the Firestore `users`   *)
(* collection, the login callback, /me/update-location, the token refresh  *)
(* of get_token_info and the geohash proximity search of /users/nearby.    *)
(*                                                                         *)
(* Numbers.  Python floats are modelled in fixed point:                    *)
(*   - a latitude or longitude is an integer count of angular units of     *)
(*     180/2^20 degree (about 19.09 m on the ground), latitude in          *)
(*     -2^19..2^19 and longitude in -2^20..2^20;                           *)
(*   - radius_km is an integer count of tenths of a kilometre, so the      *)
(*     thresholds 2.5, 20, 80 and 600 read 25, 200, 800 and 6000;          *)
(*   - a distance is an integer count of metres.                           *)
(* A geohash string is the sequence of its base-32 digit values (0..31);   *)
(* the base-32 alphabet "0123456789bcdefghjkmnpqrstuvwxyz" is ascending in *)
(* character order, so string comparison is the lexicographic comparison   *)
(* of digit sequences, with "~" above every digit.                         *)
(* An optional field of a document is a set with at most one element.      *)
(***************************************************************************)
EXTENDS Integers, Sequences, FiniteSets, TLC

VARIABLES
    db,                 \* Firestore collection 'users': user id -> document
    now,                \* wall clock that token expiry is measured against
    pc,                 \* position of the in-flight /users/nearby request
    req,                \* its inputs: spotify_id, center_lat, center_lon, radius_km
    search_hashes,      \* cells of search_hashes not queried yet, in iteration order
    docs,               \* documents of the current cell's stream not processed yet
    user_data,          \* the document being enriched (snapshot read by the query)
    token_doc,          \* get_token_info's `data`: snapshot read before the refresh
    nearby_users_data,  \* the result rows appended so far
    status_calls,       \* calls made to Spotify for candidates during this request
    arg,                \* input of the pure function under check
    ret                 \* its result

vars == <<db, now, pc, req, search_hashes, docs, user_data, token_doc,
          nearby_users_data, status_calls, arg, ret>>

searchVars == <<pc, req, search_hashes, docs, user_data, token_doc,
                nearby_users_data, status_calls>>

---------------------------------------------------------------------------
(* Bounds of the model *)

\* The clock runs from 0 to MaxNow.
MaxNow == 1

\* Every geohash of length 1..MaxHashLen is an input of get_all_neighbors.
MaxHashLen == 2

\* Coordinate differences above FarUnits angular units (about 28 km) are
\* reported by haversine as the distance of FarUnits: every radius the model
\* searches with is far below it, and the squares stay inside 32 bits.
FarUnits == 1500

---------------------------------------------------------------------------
(* Optional values *)

None == {}

Some(x) == {x}

Get(o) == CHOOSE x \in o : TRUE

Abs(x) == IF x < 0 THEN -x ELSE x

---------------------------------------------------------------------------
(* pygeohash *)

\* precision of the geohash stored with a location
StoredPrecision == 7

\* "~", the suffix of the upper end of the range query: above every digit
Tilde == 32

\* pgh.encode: bisect longitude and latitude alternately, longitude first;
\* a value above the midpoint gives bit 1, a value on it bit 0.
RECURSIVE GeohashBits(_, _, _, _, _, _, _, _)
GeohashBits(lat, lon, latLo, latHi, lonLo, lonHi, even, n) ==
    IF n = 0 THEN <<>>
    ELSE IF even
         THEN LET mid == (lonLo + lonHi) \div 2 IN
              IF lon > mid
              THEN <<1>> \o GeohashBits(lat, lon, latLo, latHi, mid, lonHi, FALSE, n - 1)
              ELSE <<0>> \o GeohashBits(lat, lon, latLo, latHi, lonLo, mid, FALSE, n - 1)
         ELSE LET mid == (latLo + latHi) \div 2 IN
              IF lat > mid
              THEN <<1>> \o GeohashBits(lat, lon, mid, latHi, lonLo, lonHi, TRUE, n - 1)
              ELSE <<0>> \o GeohashBits(lat, lon, latLo, mid, lonLo, lonHi, TRUE, n - 1)

encode(lat, lon, precision) ==
    LET b == GeohashBits(lat, lon, -(2^19), 2^19, -(2^20), 2^20, TRUE, 5 * precision)
    IN  [i \in 1..precision |->
            16 * b[5*i - 4] + 8 * b[5*i - 3] + 4 * b[5*i - 2] + 2 * b[5*i - 1] + b[5*i]]

\* pgh.get_adjacent's lookup tables.  NeighborIndex(direction, type)[d + 1] is
\* the index of digit d's character in the table string, which is the digit
\* of the adjacent cell; type is "even" for a hash of even length.
NeighborIndex(direction, type) ==
    LET A == <<2, 3, 8, 9, 6, 7, 12, 13, 10, 11, 0, 1, 14, 15, 4, 5,
               18, 19, 24, 25, 22, 23, 28, 29, 26, 27, 16, 17, 30, 31, 20, 21>>
        B == <<1, 4, 3, 6, 5, 16, 7, 18, 9, 12, 11, 14, 13, 24, 15, 26,
               17, 20, 19, 22, 21, 0, 23, 2, 25, 28, 27, 30, 29, 8, 31, 10>>
        C == <<10, 11, 0, 1, 14, 15, 4, 5, 2, 3, 8, 9, 6, 7, 12, 13,
               26, 27, 16, 17, 30, 31, 20, 21, 18, 19, 24, 25, 22, 23, 28, 29>>
        D == <<21, 0, 23, 2, 1, 4, 3, 6, 29, 8, 31, 10, 9, 12, 11, 14,
               5, 16, 7, 18, 17, 20, 19, 22, 13, 24, 15, 26, 25, 28, 27, 30>>
    IN  CASE direction = "right"  -> (IF type = "even" THEN A ELSE B)
          [] direction = "left"   -> (IF type = "even" THEN C ELSE D)
          [] direction = "top"    -> (IF type = "even" THEN B ELSE A)
          [] direction = "bottom" -> (IF type = "even" THEN D ELSE C)

Border(direction, type) ==
    LET P == {10, 11, 14, 15, 26, 27, 30, 31}    \* "bcfguvyz"
        Q == {21, 23, 29, 31}                    \* "prxz"
        R == {0, 1, 4, 5, 16, 17, 20, 21}        \* "0145hjnp"
        S == {0, 2, 8, 10}                       \* "028b"
    IN  CASE direction = "right"  -> (IF type = "even" THEN P ELSE Q)
          [] direction = "left"   -> (IF type = "even" THEN R ELSE S)
          [] direction = "top"    -> (IF type = "even" THEN Q ELSE P)
          [] direction = "bottom" -> (IF type = "even" THEN S ELSE R)

\* pgh.get_adjacent: the cell next to `geohash` in a cardinal direction, of
\* the same length; at the edge of the world the top-level digit wraps round.
RECURSIVE get_adjacent(_, _)
get_adjacent(geohash, direction) ==
    LET last_char == geohash[Len(geohash)]
        parent == SubSeq(geohash, 1, Len(geohash) - 1)
        type == IF Len(geohash) % 2 = 0 THEN "even" ELSE "odd"
        parent2 == IF last_char \in Border(direction, type) /\ parent # <<>>
                   THEN get_adjacent(parent, direction)
                   ELSE parent
    IN  Append(parent2, NeighborIndex(direction, type)[last_char + 1])

---------------------------------------------------------------------------
(* Helper functions of api.py *)

EARTH_RADIUS_KM == 6371

\* math.cos of a latitude, times 10000: a table per degree, interpolated.
CosTable ==
    <<10000, 9998, 9994, 9986, 9976, 9962, 9945, 9925, 9903, 9877, 9848, 9816,
      9781, 9744, 9703, 9659, 9613, 9563, 9511, 9455, 9397, 9336, 9272, 9205,
      9135, 9063, 8988, 8910, 8829, 8746, 8660, 8572, 8480, 8387, 8290, 8192,
      8090, 7986, 7880, 7771, 7660, 7547, 7431, 7314, 7193, 7071, 6947, 6820,
      6691, 6561, 6428, 6293, 6157, 6018, 5878, 5736, 5592, 5446, 5299, 5150,
      5000, 4848, 4695, 4540, 4384, 4226, 4067, 3907, 3746, 3584, 3420, 3256,
      3090, 2924, 2756, 2588, 2419, 2250, 2079, 1908, 1736, 1564, 1392, 1219,
      1045, 872, 698, 523, 349, 175, 0, -175>>

Cos10k(lat) ==
    LET centi == (Abs(lat) * 1125) \div 65536      \* hundredths of a degree
        d == centi \div 100
        f == centi % 100
    IN  CosTable[d + 1] + ((CosTable[d + 2] - CosTable[d + 1]) * f) \div 100

\* the arc of `units` angular units, in metres: units * pi/2^20 * 6371 km
Metres(units) == (((units * EARTH_RADIUS_KM * 10) \div 1024) * 3068) \div 10000

RECURSIVE ISqrtBetween(_, _, _)
ISqrtBetween(n, lo, hi) ==
    IF hi - lo <= 1 THEN lo
    ELSE LET mid == (lo + hi) \div 2 IN
         IF mid * mid <= n THEN ISqrtBetween(n, mid, hi) ELSE ISqrtBetween(n, lo, mid)

ISqrt(n) == ISqrtBetween(n, 0, 46341)

\* haversine, in whole metres.  For the distances the model compares (below
\* 30 km) the formula's sin(x/2)^2 and asin(sqrt(a)) are their arguments to
\* one part in 10^5, which leaves
\*     R * sqrt(dlat^2 + cos(lat1) * cos(lat2) * dlon^2).
haversine(lat1, lon1, lat2, lon2) ==
    LET dlon == Abs(lon2 - lon1)
        dlat == Abs(lat2 - lat1)
    IN  IF dlon > FarUnits \/ dlat > FarUnits THEN Metres(FarUnits)
        ELSE LET y == Metres(dlat)
                 x1 == (Metres(dlon) * Cos10k(lat1)) \div 10000
                 x2 == (Metres(dlon) * Cos10k(lat2)) \div 10000
             IN  ISqrt(y * y + x1 * x2)

\* get_all_neighbors with the hash itself left out of the list
get_all_neighbors_NoCenter(geohash, order) ==
    LET n == get_adjacent(geohash, "top")
        s == get_adjacent(geohash, "bottom")
        e == get_adjacent(geohash, "right")
        w == get_adjacent(geohash, "left")
    IN  <<n, s, e, w, get_adjacent(n, "left"), get_adjacent(n, "right"),
          get_adjacent(s, "left"), get_adjacent(s, "right")>>

\* get_all_neighbors before its list(set(...)): the hash, its four cardinal
\* neighbours, and the four diagonal ones reached through top and bottom.
neighbors(geohash) ==
    LET n == get_adjacent(geohash, "top")
        s == get_adjacent(geohash, "bottom")
        e == get_adjacent(geohash, "right")
        w == get_adjacent(geohash, "left")
        nw == get_adjacent(n, "left")
        ne == get_adjacent(n, "right")
        sw == get_adjacent(s, "left")
        se == get_adjacent(s, "right")
    IN  <<geohash, n, s, e, w, nw, ne, sw, se>>

RECURSIVE LexLess(_, _)
LexLess(a, b) ==
    IF b = <<>> THEN FALSE
    ELSE IF a = <<>> THEN TRUE
    ELSE IF a[1] # b[1] THEN a[1] < b[1]
    ELSE LexLess(Tail(a), Tail(b))

LexLE(a, b) == a = b \/ LexLess(a, b)

\* list(...) of a set: the elements once each, in one of the orders the
\* iteration of a Python set can give (ascending or descending here).
RECURSIVE Sorted(_)
Sorted(S) ==
    IF S = {} THEN <<>>
    ELSE LET m == CHOOSE x \in S : \A y \in S : LexLE(x, y)
         IN  <<m>> \o Sorted(S \ {m})

Reverse(s) == [i \in 1..Len(s) |-> s[Len(s) + 1 - i]]

ListOfSet(S, order) == IF order = "asc" THEN Sorted(S) ELSE Reverse(Sorted(S))

Range(s) == {s[i] : i \in 1..Len(s)}

get_all_neighbors(geohash, order) == ListOfSet(Range(neighbors(geohash)), order)

\* the precision with the branches of 80 and 600 exchanged
precision_Swapped(radius_km) ==
    IF radius_km <= 25 THEN 6
    ELSE IF radius_km <= 200 THEN 5
    ELSE IF radius_km <= 800 THEN 3
    ELSE IF radius_km <= 6000 THEN 4
    ELSE 2

\* users_nearby's choice of the query precision (radius in tenths of a km)
precision(radius_km) ==
    IF radius_km <= 25 THEN 6
    ELSE IF radius_km <= 200 THEN 5
    ELSE IF radius_km <= 800 THEN 4
    ELSE IF radius_km <= 6000 THEN 3
    ELSE 2

---------------------------------------------------------------------------
(* The world of the model *)

\* Spotify ids.  `"fake_user" in id` holds of the ids in FakeUsers.
Users == {"u1", "u2", "u3", "fake_user_1"}

FakeUsers == {"fake_user_1"}

\* Firestore returns the documents of a range query ordered by the geohash
\* and then by document id; IdRank is the order of the ids as strings.
IdRank(id) ==
    CASE id = "fake_user_1" -> 1 [] id = "u1" -> 2 [] id = "u2" -> 3 [] id = "u3" -> 4

\* Positions a client reports, <<lat, lon>> in angular units:
\*   P0    inside the south-west corner of a precision-5 cell near the equator
\*   P1    3.0 km west of P0, in the cell west of P0's
\*   Pfar  6.5 km north-east of P0, in P0's own precision-5 cell
\*   Phi   at 60 degrees north, at the east edge of its precision-5 cell
\*   Phi3  3.0 km east of Phi, two precision-5 cells east of Phi's
P0 == <<2568, 5128>>

P1 == <<2568, 4971>>

Pfar == <<2808, 5368>>

Phi == <<349568, 5370>>

Phi3 == <<349568, 5684>>

Positions == {P0, P1, Pfar, Phi, Phi3}

\* a document of the collection that was never written
NoDoc ==
    [exists |-> FALSE, spotify_access_token |-> 0, expires_at |-> 0,
     location_sharing_enabled |-> FALSE,
     latitude |-> None, longitude |-> None, geohash |-> None]

\* what Spotify issues at time `now`: a fresh access token and its expiry
\* (the refresh token never changes and 'last_updated' is never read: both
\* are left out of the documents)
NewTokenInfo == [access_token |-> now, expires_at |-> now + 1]

\* spotipy's is_token_expired: expires_at - now < margin
is_token_expired(token_info) == token_info.expires_at - now < 1

---------------------------------------------------------------------------
(* Writes to the store *)

\* save_user_data's document: set(..., merge=True) keeps the fields that
\* data_to_set does not name.
save_user_data_doc(old, token_info, location, is_sharing) ==
    LET base == [old EXCEPT !.exists = TRUE,
                            !.spotify_access_token = token_info.access_token,
                            !.expires_at = token_info.expires_at,
                            !.location_sharing_enabled = is_sharing]
    IN  IF location # None /\ Get(location).lat # None /\ Get(location).lon # None
        THEN [base EXCEPT !.latitude = Get(location).lat,
                          !.longitude = Get(location).lon,
                          !.geohash = Some(encode(Get(Get(location).lat),
                                                  Get(Get(location).lon),
                                                  StoredPrecision))]
        ELSE base

save_user_data(store, spotify_id, token_info, location, is_sharing) ==
    [store EXCEPT ![spotify_id] =
        save_user_data_doc(store[spotify_id], token_info, location, is_sharing)]

\* update_location keeping the geohash of a document that has one
update_location_doc_StaleHash(old, location_data, is_sharing) ==
    LET base == [old EXCEPT !.location_sharing_enabled = is_sharing]
    IN  IF location_data # None
        THEN [base EXCEPT !.latitude = Some(Get(location_data).lat),
                          !.longitude = Some(Get(location_data).lon),
                          !.geohash = IF old.geohash # None THEN old.geohash
                                      ELSE Some(encode(Get(location_data).lat,
                                                       Get(location_data).lon,
                                                       StoredPrecision))]
        ELSE base

\* update_location's document: update(data_to_update) on an existing document
update_location_doc(old, location_data, is_sharing) ==
    LET base == [old EXCEPT !.location_sharing_enabled = is_sharing]
    IN  IF location_data # None
        THEN [base EXCEPT !.latitude = Some(Get(location_data).lat),
                          !.longitude = Some(Get(location_data).lon),
                          !.geohash = Some(encode(Get(location_data).lat,
                                                  Get(location_data).lon,
                                                  StoredPrecision))]
        ELSE base

\* get_token_info's arguments for save_user_data after a refresh, taken from
\* the snapshot `data` it read before calling Spotify (0.0 is falsy)
RefreshLocation(data) ==
    IF data.latitude # None /\ Get(data.latitude) # 0
    THEN Some([lat |-> data.latitude, lon |-> data.longitude])
    ELSE None

---------------------------------------------------------------------------
(* Routes that write the store *)

\* /callback with a code: Spotify exchanges it for a token and names the
\* user; save_user_data is called with its defaults (no location, sharing
\* off).  From then on a client holds the session cookie of spotify_id.
callback(spotify_id) ==
    /\ db' = save_user_data(db, spotify_id, NewTokenInfo, None, FALSE)
    /\ UNCHANGED <<now, searchVars, arg, ret>>

\* /me/update-location of a logged-in client.  location_data is None unless
\* the form holds both lat and lon.
update_location(spotify_id, location_data, is_sharing) ==
    /\ db[spotify_id].exists
    /\ db' = [db EXCEPT ![spotify_id] =
                 update_location_doc(db[spotify_id], location_data, is_sharing)]
    /\ UNCHANGED <<now, searchVars, arg, ret>>

\* time passes
Tick ==
    /\ now < MaxNow
    /\ now' = now + 1
    /\ UNCHANGED <<db, searchVars, arg, ret>>

---------------------------------------------------------------------------
(* /users/nearby *)

NoRequest == [spotify_id |-> "", center_lat |-> 0, center_lon |-> 0, radius_km |-> 0]

\* the range query without its filter on the sharing flag
Matches_NoSharingFilter(doc, hash_prefix) ==
    /\ doc.exists
    /\ doc.geohash # None
    /\ LexLE(hash_prefix, Get(doc.geohash))
    /\ LexLE(Get(doc.geohash), Append(hash_prefix, Tilde))

\* the documents of
\*   where('geohash', '>=', hash_prefix).where('geohash', '<=', hash_prefix + '~')
\*   .where('location_sharing_enabled', '==', True)
Matches(doc, hash_prefix) ==
    /\ doc.exists
    /\ doc.geohash # None
    /\ LexLE(hash_prefix, Get(doc.geohash))
    /\ LexLE(Get(doc.geohash), Append(hash_prefix, Tilde))
    /\ doc.location_sharing_enabled = TRUE

DocBefore(store, u, v) ==
    \/ LexLess(Get(store[u].geohash), Get(store[v].geohash))
    \/ store[u].geohash = store[v].geohash /\ IdRank(u) <= IdRank(v)

RECURSIVE StreamOf(_, _)
StreamOf(store, ids) ==
    IF ids = {} THEN <<>>
    ELSE LET u == CHOOSE x \in ids : \A y \in ids : DocBefore(store, x, y)
         IN  <<[id |-> u, data |-> store[u]]>> \o StreamOf(store, ids \ {u})

\* query.stream(): snapshots of the matching documents
Query(store, hash_prefix) ==
    StreamOf(store, {u \in Users : Matches(store[u], hash_prefix)})

\* the filters without the test of the requester's own id
IsCandidate_NoSelfCheck(doc, r) ==
    /\ doc.data.latitude # None /\ doc.data.longitude # None
    /\ haversine(r.center_lat, r.center_lon,
                 Get(doc.data.latitude), Get(doc.data.longitude)) <= r.radius_km * 110

\* the filters without the test of the distance
IsCandidate_NoDistance(doc, r) ==
    /\ doc.id # r.spotify_id
    /\ doc.data.latitude # None /\ doc.data.longitude # None

\* the loop's filters before the enrichment: not the requester's own record,
\* both coordinates present, distance <= radius_km * 1.1
IsCandidate(doc, r) ==
    /\ doc.id # r.spotify_id
    /\ doc.data.latitude # None /\ doc.data.longitude # None
    /\ haversine(r.center_lat, r.center_lon,
                 Get(doc.data.latitude), Get(doc.data.longitude)) <= r.radius_km * 110

\* the row of a "fake_user" id: built from the document alone
FakeRow(doc) ==
    [id |-> doc.id, latitude |-> Get(doc.data.latitude),
     longitude |-> Get(doc.data.longitude), track_name |-> "Song"]

\* the row of a user whose track Spotify reports
LiveRow(doc) ==
    [id |-> doc.id, latitude |-> Get(doc.data.latitude),
     longitude |-> Get(doc.data.longitude), track_name |-> "now_playing"]

\* the enrichment appending a row whatever Spotify answers
Enriched_Always(rows, doc, outcome) == Append(rows, LiveRow(doc))

\* sp.current_user() and sp.current_user_playing_track() for one candidate
\* with an access token; outcome is what Spotify answers: "playing",
\* "not_playing" (no track, or is_playing false) or "failed" (the call or the
\* reading of the track raises, which `except Exception: pass` swallows)
Enriched(rows, doc, outcome) ==
    IF outcome = "playing" THEN Append(rows, LiveRow(doc)) ELSE rows

Outcomes == {"playing", "not_playing", "failed"}

\* where the loops stand once the current document is done
AfterDoc(rest) == IF rest = <<>> THEN "cells" ELSE "docs"

\* the request's entry: session, JSON body, precision, neighbourhood
users_nearby(spotify_id, center, radius_km, order, valid) ==
    /\ pc = "idle"
    /\ db[spotify_id].exists
    /\ IF valid
       THEN /\ pc' = "cells"
            /\ req' = [spotify_id |-> spotify_id, center_lat |-> center[1],
                       center_lon |-> center[2], radius_km |-> radius_km]
            /\ search_hashes' =
                   get_all_neighbors(
                       encode(center[1], center[2], precision(radius_km)), order)
       ELSE /\ pc' = "rejected"
            /\ req' = [NoRequest EXCEPT !.spotify_id = spotify_id]
            /\ search_hashes' = <<>>
    /\ docs' = <<>>
    /\ nearby_users_data' = <<>>
    /\ status_calls' = {}
    /\ UNCHANGED <<db, now, user_data, token_doc, arg, ret>>

\* one turn of `for hash_prefix in search_hashes`: the range query.  A
\* failing query raises out of the handler.
QueryCell ==
    /\ pc = "cells"
    /\ search_hashes # <<>>
    /\ \/ /\ docs' = Query(db, Head(search_hashes))
          /\ pc' = AfterDoc(docs')
          /\ search_hashes' = Tail(search_hashes)
       \/ /\ pc' = "error"
          /\ UNCHANGED <<docs, search_hashes>>
    /\ UNCHANGED <<db, now, req, user_data, token_doc, nearby_users_data,
                   status_calls, arg, ret>>

\* one turn of `for doc in docs`, up to get_token_info's read of the
\* candidate's document and, with a live token, the enrichment
ProcessDoc ==
    /\ pc = "docs"
    /\ LET doc == Head(docs)
           rest == Tail(docs)
       IN  /\ docs' = rest
           /\ IF ~IsCandidate(doc, req)
              THEN /\ pc' = AfterDoc(rest)
                   /\ UNCHANGED <<user_data, token_doc, nearby_users_data, status_calls>>
              ELSE IF doc.id \in FakeUsers
              THEN /\ nearby_users_data' = Append(nearby_users_data, FakeRow(doc))
                   /\ pc' = AfterDoc(rest)
                   /\ UNCHANGED <<user_data, token_doc, status_calls>>
              ELSE \/ \* user_ref.get() raises: out of the handler
                      /\ pc' = "error"
                      /\ UNCHANGED <<user_data, token_doc, nearby_users_data,
                                     status_calls>>
                   \/ \* the stored token has expired: refresh it next
                      /\ is_token_expired(db[doc.id])
                      /\ pc' = "refresh"
                      /\ user_data' = doc
                      /\ token_doc' = db[doc.id]
                      /\ UNCHANGED <<nearby_users_data, status_calls>>
                   \/ \* the stored token is live
                      /\ ~is_token_expired(db[doc.id])
                      /\ \E outcome \in Outcomes :
                            /\ nearby_users_data' =
                                   Enriched(nearby_users_data, doc, outcome)
                            /\ status_calls' = status_calls \cup
                                   {[id |-> doc.id, outcome |-> outcome]}
                      /\ pc' = AfterDoc(rest)
                      /\ UNCHANGED <<user_data, token_doc>>
    /\ UNCHANGED <<db, now, req, search_hashes, arg, ret>>

\* get_token_info after its read: refresh_access_token and save_user_data
\* with the sharing flag and location of the snapshot, then the enrichment;
\* a failing refresh or save returns no token and the candidate is skipped
RefreshToken ==
    /\ pc = "refresh"
    /\ \/ /\ db' = save_user_data(db, user_data.id, NewTokenInfo,
                                  RefreshLocation(token_doc),
                                  token_doc.location_sharing_enabled)
          /\ \E outcome \in Outcomes :
                /\ nearby_users_data' = Enriched(nearby_users_data, user_data, outcome)
                /\ status_calls' = status_calls \cup
                       {[id |-> user_data.id, outcome |-> outcome]}
       \/ /\ status_calls' = status_calls \cup
                 {[id |-> user_data.id, outcome |-> "no_token"]}
          /\ UNCHANGED <<db, nearby_users_data>>
    /\ pc' = AfterDoc(docs)
    /\ user_data' = [id |-> "", data |-> NoDoc]
    /\ token_doc' = NoDoc
    /\ UNCHANGED <<now, req, search_hashes, docs, arg, ret>>

\* return jsonify(nearby_users_data)
Return ==
    /\ pc = "cells"
    /\ search_hashes = <<>>
    /\ pc' = "done"
    /\ UNCHANGED <<db, now, req, search_hashes, docs, user_data, token_doc,
                   nearby_users_data, status_calls, arg, ret>>

\* the response leaves: 200 with the rows, 400 for a bad body, 500 for an
\* exception out of the handler
Respond ==
    /\ pc \in {"done", "rejected", "error"}
    /\ pc' = "idle"
    /\ req' = NoRequest
    /\ search_hashes' = <<>>
    /\ docs' = <<>>
    /\ nearby_users_data' = <<>>
    /\ status_calls' = {}
    /\ UNCHANGED <<db, now, user_data, token_doc, arg, ret>>

---------------------------------------------------------------------------
(* The service under concurrent requests *)

\* radius_km values of the searches, in tenths of a kilometre
Radius5 == 50

Radius2 == 20

\* the service after start-up: an empty collection, no request in flight
Idle ==
    /\ pc = "idle"
    /\ req = NoRequest
    /\ search_hashes = <<>>
    /\ docs = <<>>
    /\ user_data = [id |-> "", data |-> NoDoc]
    /\ token_doc = NoDoc
    /\ nearby_users_data = <<>>
    /\ status_calls = {}

Init ==
    /\ db = [u \in Users |-> NoDoc]
    /\ now = 0
    /\ Idle
    /\ arg = <<>>
    /\ ret = <<>>

\* the users who log in while requests run concurrently
Clients == {"u1", "u2"}

\* what a client's form holds: no position, or one of two positions
Locations == {None} \cup {Some([lat |-> p[1], lon |-> p[2]]) : p \in {P1, Pfar}}

Next ==
    \/ \E u \in Clients : callback(u)
    \/ \E u \in Clients, l \in Locations, s \in BOOLEAN : update_location(u, l, s)
    \/ Tick
    \/ \E valid \in BOOLEAN :
          \E order \in {"asc", "desc"} : users_nearby("u1", P0, Radius5, order, valid)
    \/ QueryCell
    \/ ProcessDoc
    \/ RefreshToken
    \/ Return
    \/ Respond

Spec == Init /\ [][Next]_vars

---------------------------------------------------------------------------
(* One client searching a store that nobody else writes *)

\* A document as the callback and update-location leave it: logged in at
\* `issued`, then reporting position p with the sharing flag.
DocOf(p, is_sharing, issued) ==
    update_location_doc(
        save_user_data_doc(NoDoc, [access_token |-> issued, expires_at |-> issued + 1],
                           None, FALSE),
        Some([lat |-> p[1], lon |-> p[2]]), is_sharing)

\* u1 is the requester, at P0; u2 and the fake user are anywhere, sharing or
\* not; u3 shares a position 3 km from one of the centers; the tokens of u2
\* and u3 are live (issued now) or expired (issued one tick ago).
SearchStores ==
    { [u \in Users |->
          CASE u = "u1" -> DocOf(P0, TRUE, MaxNow)
            [] u = "u2" -> DocOf(p2, s2, MaxNow - e2)
            [] u = "u3" -> DocOf(p3, TRUE, MaxNow - e3)
            [] u = "fake_user_1" -> DocOf(pf, sf, MaxNow)] :
      p2 \in Positions, s2 \in BOOLEAN, e2 \in {0, 1},
      p3 \in {P1, Phi3}, e3 \in {0, 1},
      pf \in Positions, sf \in BOOLEAN }

InitSearch ==
    /\ db \in SearchStores
    /\ now = MaxNow
    /\ Idle
    /\ arg = <<>>
    /\ ret = <<>>

NextSearch ==
    \/ \E center \in {P0, Phi}, radius_km \in {Radius5, Radius2},
          order \in {"asc", "desc"}, valid \in BOOLEAN :
          users_nearby("u1", center, radius_km, order, valid)
    \/ QueryCell
    \/ ProcessDoc
    \/ RefreshToken
    \/ Return
    \/ Respond

SpecSearch == InitSearch /\ [][NextSearch]_vars

---------------------------------------------------------------------------
(* The pure functions on their own *)

\* radii around every threshold, in tenths of a kilometre
Radii == {-10, 0, 1, 24, 25, 26, 50, 199, 200, 201, 799, 800, 801,
          5999, 6000, 6001, 10000}

InitPrecision ==
    /\ db = [u \in Users |-> NoDoc]
    /\ now = 0
    /\ Idle
    /\ arg \in Radii \X Radii
    /\ ret = <<>>

ApplyPrecision ==
    /\ ret = <<>>
    /\ ret' = <<precision(arg[1]), precision(arg[2])>>
    /\ UNCHANGED <<db, now, searchVars, arg>>

SpecPrecision == InitPrecision /\ [][ApplyPrecision]_vars

\* every geohash of length 1..MaxHashLen, and the cells of the model's
\* positions and of two corners of the world at the precisions of a search
Hashes ==
    UNION {[1..n -> 0..31] : n \in 1..MaxHashLen}
    \cup {encode(p[1], p[2], k) :
             p \in Positions \cup {<<2^19, 2^20>>, <<-(2^19), -(2^20)>>}, k \in 2..6}

InitNeighbors ==
    /\ db = [u \in Users |-> NoDoc]
    /\ now = 0
    /\ Idle
    /\ arg \in Hashes \X {"asc", "desc"}
    /\ ret = <<>>

ApplyNeighbors ==
    /\ ret = <<>>
    /\ ret' = get_all_neighbors(arg[1], arg[2])
    /\ UNCHANGED <<db, now, searchVars, arg>>

SpecNeighbors == InitNeighbors /\ [][ApplyNeighbors]_vars

---------------------------------------------------------------------------
(* Properties *)

RowIds(rows) == {rows[i].id : i \in 1..Len(rows)}

DocIds(ds) == {ds[i].id : i \in 1..Len(ds)}

\* the document whose turn of the inner loop is running
CurrentDocId ==
    IF pc = "docs" THEN {Head(docs).id}
    ELSE IF pc = "refresh" THEN {user_data.id}
    ELSE {}

\* the cells a request scans
ScannedCells(r) ==
    Range(get_all_neighbors(
              encode(r.center_lat, r.center_lon, precision(r.radius_km)), "asc"))

InScannedCell(doc, r) == \E h \in ScannedCells(r) : Matches(doc, h)

Distance(doc, r) ==
    haversine(r.center_lat, r.center_lon, Get(doc.latitude), Get(doc.longitude))

\* C1: a user whose sharing flag is false when a cell is queried is not in
\* that query's stream, and rows are made of nothing but the documents of
\* the stream: every query step yields only documents whose flag is true in
\* the store at that step, the stream only shrinks afterwards, the document
\* under refresh is one taken from the stream, and a step adds rows only for
\* the document whose turn it is.
C1_SharingGate ==
    [][ /\ (pc = "cells" =>
               \A u \in DocIds(docs') : db[u].location_sharing_enabled)
        /\ (pc # "cells" => DocIds(docs') \subseteq DocIds(docs))
        /\ (pc # "refresh" /\ pc' = "refresh" =>
               pc = "docs" /\ user_data'.id = Head(docs).id)
        /\ (pc' # "idle" =>
               RowIds(nearby_users_data') \ RowIds(nearby_users_data)
                   \subseteq CurrentDocId)
      ]_vars

\* C1 witness: a search has returned while a user who does not share sits
\* 3 km from the center in a scanned cell, and has no row.
C1_Witness ==
    /\ pc = "done"
    /\ db["u2"].exists /\ ~db["u2"].location_sharing_enabled
    /\ db["u2"].geohash # None
    /\ \E h \in ScannedCells(req) :
          Matches([db["u2"] EXCEPT !.location_sharing_enabled = TRUE], h)
    /\ Distance(db["u2"], req) <= req.radius_km * 110
    /\ "u2" \notin RowIds(nearby_users_data)

\* C2: no row of a request has the requester's own user id.
C2_RequesterExcluded ==
    \A i \in 1..Len(nearby_users_data) : nearby_users_data[i].id # req.spotify_id

\* C2 witness: a search has returned rows while the requester's own record
\* shares, lies within the radius and is in a scanned cell.
C2_Witness ==
    /\ pc = "done"
    /\ nearby_users_data # <<>>
    /\ db[req.spotify_id].location_sharing_enabled
    /\ InScannedCell(db[req.spotify_id], req)
    /\ Distance(db[req.spotify_id], req) <= req.radius_km * 110

\* C3: every row's position is at most radius_km * 1.1 from the center.
C3_WithinSlack ==
    \A i \in 1..Len(nearby_users_data) :
        haversine(req.center_lat, req.center_lon,
                  nearby_users_data[i].latitude, nearby_users_data[i].longitude)
            <= req.radius_km * 110

\* C3 witness: a search has returned without a row for a sharing user who
\* is in the center's own cell, farther from the center than the slack.
C3_Witness ==
    /\ pc = "done"
    /\ \E u \in Users \ {req.spotify_id} :
          /\ db[u].location_sharing_enabled
          /\ db[u].geohash # None
          /\ Matches(db[u], encode(req.center_lat, req.center_lon,
                                   precision(req.radius_km)))
          /\ Distance(db[u], req) > req.radius_km * 110
          /\ u \notin RowIds(nearby_users_data)

\* C4: when a search of radius 5 km has returned, every sharing user other
\* than the requester who is 3 km (2.9 to 3.1 km) from the center, and about
\* whom Spotify reported nothing but a playing track, has a row.
C4_ThreeKmUserFound ==
    (pc = "done" /\ req.radius_km = Radius5) =>
        \A u \in (Users \ FakeUsers) \ {req.spotify_id} :
            ( /\ db[u].exists /\ db[u].location_sharing_enabled
              /\ db[u].latitude # None /\ db[u].longitude # None
              /\ Distance(db[u], req) >= 2900 /\ Distance(db[u], req) <= 3100
              /\ \A c \in status_calls : c.id = u => c.outcome = "playing" )
            => u \in RowIds(nearby_users_data)

\* C5: a search is never aborted by a failing index query or a failing
\* enrichment; it ends with its rows, or is rejected for its input.
C5_NeverAborted == pc # "error"

\* C6: the precision is the threshold table's, lies in 2..6, and does not
\* grow with the radius.
C6_PrecisionTable ==
    ret # <<>> =>
        /\ (arg[1] <= 25 => ret[1] = 6)
        /\ (arg[1] > 25 /\ arg[1] <= 200 => ret[1] = 5)
        /\ (arg[1] > 200 /\ arg[1] <= 800 => ret[1] = 4)
        /\ (arg[1] > 800 /\ arg[1] <= 6000 => ret[1] = 3)
        /\ (arg[1] > 6000 => ret[1] = 2)
        /\ ret[1] \in 2..6
        /\ (arg[1] <= arg[2] => ret[1] >= ret[2])

\* C6 witness: the precision was computed for a radius of 2.5 km and for a
\* larger one across a threshold.
C6_Witness == ret # <<>> /\ arg = <<25, 26>> /\ ret = <<6, 5>>

\* C7: the neighbourhood of a hash contains the hash and has between 1 and 9
\* members, no two of them equal.
C7_Neighborhood ==
    ret # <<>> =>
        /\ \E i \in 1..Len(ret) : ret[i] = arg[1]
        /\ Len(ret) >= 1 /\ Len(ret) <= 9
        /\ \A i, j \in 1..Len(ret) : i # j => ret[i] # ret[j]

\* C7 witness: the neighbourhood of the cell in the north-east corner of
\* the world at precision 5 was computed (its top and right wrap round).
C7_Witness ==
    /\ ret # <<>>
    /\ arg[1] = encode(2^19, 2^20, 5)
    /\ \E i \in 1..Len(ret) : ret[i] = encode(-(2^19) + 1, -(2^20) + 1, 5)

\* C8: a document that holds a geohash holds a latitude and a longitude,
\* and its geohash is the precision-7 encoding of exactly these.
C8_GeohashOfStoredPosition ==
    \A u \in Users :
        db[u].geohash # None =>
            /\ db[u].latitude # None /\ db[u].longitude # None
            /\ Len(Get(db[u].geohash)) = 7
            /\ Get(db[u].geohash) =
                   encode(Get(db[u].latitude), Get(db[u].longitude), 7)

\* C8 witness: a user has moved from one position to another and a token
\* refresh of get_token_info has written the document since.
C8_Witness ==
    /\ pc = "refresh"
    /\ token_doc.geohash = Some(encode(P1[1], P1[2], 7))
    /\ db[user_data.id].geohash = Some(encode(Pfar[1], Pfar[2], 7))

\* C9 as stated: every row belongs to a candidate for whom Spotify was
\* called and reported a playing track.
C9_EveryRowPlaying ==
    \A i \in 1..Len(nearby_users_data) :
        [id |-> nearby_users_data[i].id, outcome |-> "playing"] \in status_calls

\* C9 amended: every row of a user whose id does not contain "fake_user"
\* belongs to a candidate for whom Spotify was called and reported a
\* playing track.
C9_RealRowPlaying ==
    \A i \in 1..Len(nearby_users_data) :
        nearby_users_data[i].id \notin FakeUsers =>
            [id |-> nearby_users_data[i].id, outcome |-> "playing"] \in status_calls

\* C9 witness: a search has returned; one candidate's status fetch failed,
\* another's token could not be refreshed, neither has a row.
C9_Witness ==
    /\ pc = "done"
    /\ [id |-> "u2", outcome |-> "failed"] \in status_calls
    /\ [id |-> "u3", outcome |-> "no_token"] \in status_calls
    /\ RowIds(nearby_users_data) \cap {"u2", "u3"} = {}

\* C10: the write-back of a token refresh leaves the sharing flag and the
\* location of every document as they are in the store.
C10_RefreshKeepsRecord ==
    [][ (pc = "refresh" /\ pc' # "refresh") =>
            \A u \in Users :
                /\ db'[u].location_sharing_enabled = db[u].location_sharing_enabled
                /\ db'[u].latitude = db[u].latitude
                /\ db'[u].longitude = db[u].longitude
                /\ db'[u].geohash = db[u].geohash
      ]_vars

===========================================================================
